---- MODULE Spec2Model ----
(***************************************************************************)
(* Provider registry and market data service of wealthfolio                *)
(* (src-core/src/market_data).  The registry is built once from the        *)
(* persisted provider settings; the service routes symbols, searches       *)
(* tickers and fetches quotes in bulk through it.                          *)
(***************************************************************************)
EXTENDS Integers, Sequences, FiniteSets, TLC

VARIABLES
    settings,        \* provider_settings handed to ProviderRegistry::new
    lookups,         \* per setting: what get_secret / the provider's new() answer
    newResult,       \* "none" before construction, then "Ok" or "Err"
    registry,        \* the ProviderRegistry (meaningful when newResult = "Ok")
    pc,              \* where the running call stands ("idle": no call running)
    symbol,          \* argument of the get_provider_for_symbol call
    routed,          \* its return value: a provider id, or None
    query,           \* search_ticker: its argument
    search_order,    \* search_ticker: the profiler ids in visit order
    next_profiler,   \* search_ticker: position of the loop in search_order
    all_results,     \* search_ticker: accumulated summaries
    errors,          \* search_ticker: ids of the profilers that failed
    visited,         \* search_ticker: the profiler calls made, with their answers
    searchResult,    \* search_ticker: its return value
    quote_requests,     \* get_latest_quotes_bulk: its argument
    provider_requests,  \* get_latest_quotes_bulk: the groups not yet processed
    group_answers,      \* get_latest_quotes_bulk: what each provider answered
    results,            \* get_latest_quotes_bulk: quotes computed so far
    failed_requests,    \* get_latest_quotes_bulk: requests recorded as failed
    bulkResult,         \* get_latest_quotes_bulk: its return value
    provider_quotes,    \* one group's answer: the quotes the provider returned
    kept_quotes,        \* one group's answer: what is added to `results`
    quote_import,       \* validate_quote_import: its argument
    assets,             \* validate_quote_import: what list_by_symbols answers
    validation_status,  \* validate_quote_import: its return value
    import_rows,        \* import_quotes: its argument (`quotes`)
    asset_answers,      \* import_quotes: what list_by_symbols answers per row
    validation_results, \* import_quotes: the statuses, in row order
    valid_quotes,       \* import_quotes: the synthesized quotes
    save_calls,         \* import_quotes: the batches handed to save_quotes
    importResult,       \* import_quotes: its return value
    csv_rows,           \* import_quotes_from_csv: its argument (`quotes`)
    csv_overwrite,      \* import_quotes_from_csv: its argument `overwrite`
    csv_out,            \* import_quotes_from_csv: the rows processed so far
    csv_calls,          \* import_quotes_from_csv: per row, the repository calls
    store,              \* the quotes the repository holds
    csvResult,          \* import_quotes_from_csv: its return value
    rw_lock,            \* the RwLock around the registry: guards held, waiters
    task_pc,            \* where each task using the lock stands
    groups_left         \* get_latest_quotes_bulk: provider groups still to process

newVars == <<settings, lookups, newResult, registry>>
routeVars == <<symbol, routed>>
searchVars == <<query, search_order, next_profiler, all_results, errors, visited, searchResult>>

bulkVars == <<quote_requests, provider_requests, group_answers, results,
              failed_requests, bulkResult>>

latestVars == <<provider_quotes, kept_quotes>>

validateVars == <<quote_import, assets, validation_status>>

importVars == <<import_rows, asset_answers, validation_results, valid_quotes,
                save_calls, importResult>>

csvVars == <<csv_rows, csv_overwrite, csv_out, csv_calls, store, csvResult>>

lockVars == <<rw_lock, task_pc, groups_left>>

otherVars == <<csvVars, lockVars>>

quoteVars == <<latestVars, validateVars, importVars, otherVars>>

vars == <<newVars, pc, routeVars, searchVars, bulkVars, quoteVars>>

-----------------------------------------------------------------------------
(* Bounds of the model *)

MaxSettings == 2
MaxPriority == 2
MaxSymLen == 3
MaxResultLen == 1
MaxRequests == 2
MaxQuotes == 1

-----------------------------------------------------------------------------
(* Provider ids (market_data_constants) *)

DATA_SOURCE_YAHOO == "YAHOO"
DATA_SOURCE_MARKET_DATA_APP == "MARKETDATA_APP"
DATA_SOURCE_ALPHA_VANTAGE == "ALPHA_VANTAGE"
DATA_SOURCE_METAL_PRICE_API == "METAL_PRICE_API"
DATA_SOURCE_VN_MARKET == "VN_MARKET"
DATA_SOURCE_MANUAL == "MANUAL"

\* An id that ProviderRegistry::new does not know (the `_ =>` arm).
UNKNOWN_PROVIDER == "UNKNOWN"

KnownIds ==
    { DATA_SOURCE_YAHOO, DATA_SOURCE_MARKET_DATA_APP, DATA_SOURCE_ALPHA_VANTAGE,
      DATA_SOURCE_METAL_PRICE_API, DATA_SOURCE_VN_MARKET, DATA_SOURCE_MANUAL }

SettingIds == KnownIds \cup {UNKNOWN_PROVIDER}

None == "None"

-----------------------------------------------------------------------------
(* Strings are sequences of characters *)

Alphabet == {"A", ".", "V", "N", "v", "n"}

UpperChar(c) == CASE c = "v" -> "V" [] c = "n" -> "N" [] OTHER -> c

to_uppercase(s) == [i \in 1..Len(s) |-> UpperChar(s[i])]

ends_with(s, suffix) ==
    /\ Len(s) >= Len(suffix)
    /\ SubSeq(s, Len(s) - Len(suffix) + 1, Len(s)) = suffix

contains(s, pat) ==
    \E i \in 1..(Len(s) - Len(pat) + 1) : SubSeq(s, i, i + Len(pat) - 1) = pat

SeqsUpTo(S, n) == UNION { [1..k -> S] : k \in 0..n }

Range(f) == { f[i] : i \in DOMAIN f }

-----------------------------------------------------------------------------
(* ProviderRegistry::new *)

\* MarketDataProviderSetting, reduced to the fields the registry reads.
Setting == [id : SettingIds, priority : 1..MaxPriority, enabled : BOOLEAN]

\* What the collaborators answer for one setting: SecretManager::get_secret
\* (Err, Ok(None), Ok(Some("")), Ok(Some(key))) and the provider's
\* constructor (YahooProvider::new and MarketDataAppProvider::new are
\* fallible and propagated with `?`).
SecretAnswers == {"Err", "None", "Empty", "Key"}

Lookup == [secret : SecretAnswers, initOk : BOOLEAN]

\* The answers that ProviderRegistry::new can observe for a setting; the
\* ones it never asks for are fixed.
LookupsFor(setting) ==
    IF ~setting.enabled THEN {[secret |-> "None", initOk |-> TRUE]}
    ELSE CASE setting.id = DATA_SOURCE_YAHOO ->
                  {[secret |-> "None", initOk |-> b] : b \in BOOLEAN}
           [] setting.id = DATA_SOURCE_VN_MARKET ->
                  {[secret |-> "None", initOk |-> TRUE]}
           [] setting.id = DATA_SOURCE_MARKET_DATA_APP ->
                  {l \in Lookup : l.secret # "Key" => l.initOk}
           [] OTHER ->
                  {l \in Lookup : l.initOk}

DisabledSkipNever(setting) == FALSE

\* `if !setting.enabled { continue; }`
DisabledSkip(setting) == ~setting.enabled

\* `let api_key = ...`: "Skip" is the `continue` of the Err arm, otherwise
\* the Option<String> ("None", "Empty" for Some(""), "Key").
ApiKey(setting, lookup) ==
    IF setting.id # DATA_SOURCE_YAHOO /\ setting.id # DATA_SOURCE_VN_MARKET
    THEN IF lookup.secret = "Err" THEN "Skip" ELSE lookup.secret
    ELSE "None"

InitError == [kind |-> "Err", provider |-> FALSE, profiler |-> FALSE]
NoProvider == [kind |-> "Ok", provider |-> FALSE, profiler |-> FALSE]
Instance(hasProfiler) == [kind |-> "Ok", provider |-> TRUE, profiler |-> hasProfiler]

\* `let (provider, profiler) = match provider_id_str.as_str() { ... }`
Instantiate(setting, api_key, lookup) ==
    CASE setting.id = DATA_SOURCE_YAHOO ->
             IF lookup.initOk THEN Instance(TRUE) ELSE InitError
      [] setting.id = DATA_SOURCE_MARKET_DATA_APP ->
             IF api_key = "Key"
             THEN IF lookup.initOk THEN Instance(FALSE) ELSE InitError
             ELSE NoProvider
      [] setting.id = DATA_SOURCE_ALPHA_VANTAGE ->
             IF api_key = "Key" THEN Instance(TRUE) ELSE NoProvider
      [] setting.id = DATA_SOURCE_METAL_PRICE_API ->
             IF api_key = "Key" THEN Instance(TRUE) ELSE NoProvider
      [] setting.id = DATA_SOURCE_VN_MARKET -> Instance(TRUE)
      [] setting.id = DATA_SOURCE_MANUAL -> Instance(TRUE)
      [] OTHER -> NoProvider

\* What one iteration of the loop over provider_settings does: `continue`
\* ("Skip"), return the constructor's error ("Err"), or push a tuple.
SkipSetting == [kind |-> "Skip", profiler |-> FALSE]
AbortNew == [kind |-> "Err", profiler |-> FALSE]
PushSetting(hasProfiler) == [kind |-> "Push", profiler |-> hasProfiler]

\* `if let (Some(provider), profiler) = (provider, profiler) { push }`
Register(setting, api_key, lookup) ==
    LET inst == Instantiate(setting, api_key, lookup) IN
    IF inst.kind = "Err" THEN AbortNew
    ELSE IF inst.provider THEN PushSetting(inst.profiler) ELSE SkipSetting

VisitSettingSecretFatal(setting, lookup) ==
    IF DisabledSkip(setting) THEN SkipSetting
    ELSE IF ApiKey(setting, lookup) = "Skip" THEN AbortNew
    ELSE Register(setting, ApiKey(setting, lookup), lookup)

\* The body of `for setting in provider_settings`.
VisitSetting(setting, lookup) ==
    IF DisabledSkip(setting) THEN SkipSetting
    ELSE IF ApiKey(setting, lookup) = "Skip" THEN SkipSetting
    ELSE Register(setting, ApiKey(setting, lookup), lookup)

\* The loop over provider_settings: active_providers_with_priority, or the
\* error a constructor's `?` returns.
RECURSIVE CollectActive(_, _, _, _)
CollectActive(ss, ls, i, acc) ==
    IF i > Len(ss) THEN [kind |-> "Ok", active |-> acc]
    ELSE LET visit == VisitSetting(ss[i], ls[i]) IN
         CASE visit.kind = "Err" -> [kind |-> "Err", active |-> <<>>]
           [] visit.kind = "Skip" -> CollectActive(ss, ls, i + 1, acc)
           [] OTHER -> CollectActive(ss, ls, i + 1,
                           Append(acc, [priority |-> ss[i].priority,
                                        id |-> ss[i].id,
                                        profiler |-> visit.profiler]))

InsertAtUnstable(sorted, x) ==
    LET later == { j \in 1..Len(sorted) : sorted[j].priority >= x.priority }
    IN IF later = {} THEN Len(sorted) + 1
       ELSE CHOOSE j \in later : \A k \in later : j <= k

\* Position at which a stable ascending sort places x in a sorted prefix:
\* after every element whose key is not greater.
InsertAt(sorted, x) ==
    LET later == { j \in 1..Len(sorted) : sorted[j].priority > x.priority }
    IN IF later = {} THEN Len(sorted) + 1
       ELSE CHOOSE j \in later : \A k \in later : j <= k

InsertInto(sorted, x, at) ==
    SubSeq(sorted, 1, at - 1) \o <<x>> \o SubSeq(sorted, at, Len(sorted))

RECURSIVE SortFrom(_, _, _)
SortFrom(seq, i, sorted) ==
    IF i > Len(seq) THEN sorted
    ELSE SortFrom(seq, i + 1, InsertInto(sorted, seq[i], InsertAt(sorted, seq[i])))

\* `active_providers_with_priority.sort_by_key(|(priority, ..)| *priority)`:
\* slice::sort_by_key is a stable sort.
sort_by_key(seq) == SortFrom(seq, 1, <<>>)

SelectProfilers(sorted) == SelectSeq(sorted, LAMBDA t : t.profiler)

\* The second loop: the ordered id lists and the two maps (a HashMap is
\* modelled by its key set: the value is the provider instance of that id).
Populate(sorted) ==
    [ data_providers |-> { sorted[i].id : i \in DOMAIN sorted },
      ordered_data_provider_ids |-> [i \in DOMAIN sorted |-> sorted[i].id],
      asset_profilers |-> { sorted[i].id : i \in { j \in DOMAIN sorted : sorted[j].profiler } },
      ordered_profiler_ids |->
          [i \in DOMAIN SelectProfilers(sorted) |-> SelectProfilers(sorted)[i].id] ]

EmptyRegistry == Populate(<<>>)

\* ProviderRegistry::new(provider_settings, settings_service)
New(ss, ls) ==
    LET collected == CollectActive(ss, ls, 1, <<>>) IN
    IF collected.kind = "Err"
    THEN [kind |-> "Err", registry |-> EmptyRegistry]
    ELSE [kind |-> "Ok", registry |-> Populate(sort_by_key(collected.active))]

\* Settings lists: the provider table is keyed by id, so ids are distinct.
DistinctIds(ss) == \A i, j \in DOMAIN ss : i # j => ss[i].id # ss[j].id

SettingsLists == { ss \in SeqsUpTo(Setting, MaxSettings) : DistinctIds(ss) }

LookupLists(ss) ==
    { ls \in [DOMAIN ss -> Lookup] : \A i \in DOMAIN ss : ls[i] \in LookupsFor(ss[i]) }

\* The registries ProviderRegistry::new can return: every one of them is
\* also built from a list of enabled, instantiable settings.
OkLookups(ss) == [i \in DOMAIN ss |-> [secret |-> "Key", initOk |-> TRUE]]

Registries ==
    { New(ss, OkLookups(ss)).registry :
        ss \in { s \in SettingsLists :
                   \A i \in DOMAIN s : s[i].enabled /\ s[i].id \in KnownIds } }

\* The variables of a call that is not running.
RouteIdle == symbol = <<>> /\ routed = None

NoResult == [kind |-> "none", results |-> <<>>, error |-> None]

SearchIdle ==
    /\ query = <<>>
    /\ search_order = <<>>
    /\ next_profiler = 1
    /\ all_results = <<>>
    /\ errors = <<>>
    /\ visited = <<>>
    /\ searchResult = NoResult

NoQuotes == [kind |-> "none", quotes |-> <<>>, failed |-> 0]

EmptyMap == [p \in {} |-> <<>>]

BulkIdle ==
    /\ quote_requests = <<>>
    /\ provider_requests = EmptyMap
    /\ group_answers = EmptyMap
    /\ results = <<>>
    /\ failed_requests = <<>>
    /\ bulkResult = NoQuotes

LatestIdle == provider_quotes = <<>> /\ kept_quotes = <<>>

\* Option<Decimal>: None, and Some(p).
Absent == <<>>
Some(p) == <<p>>

NoRow == [symbol |-> <<>>, date |-> <<>>, open |-> Absent, high |-> Absent,
          low |-> Absent, close |-> 0, volume |-> Absent, currency |-> "USD"]

NoStatus == [kind |-> "none", message |-> ""]

NoImportResult == [kind |-> "none", statuses |-> <<>>]

ValidateIdle ==
    /\ quote_import = NoRow
    /\ assets = "Empty"
    /\ validation_status = NoStatus

ImportIdle ==
    /\ import_rows = <<>>
    /\ asset_answers = <<>>
    /\ validation_results = <<>>
    /\ valid_quotes = <<>>
    /\ save_calls = <<>>
    /\ importResult = NoImportResult

NoCsvResult == [kind |-> "none", rows |-> <<>>]

CsvIdle ==
    /\ csv_rows = <<>>
    /\ csv_overwrite = FALSE
    /\ csv_out = <<>>
    /\ csv_calls = <<>>
    /\ store = {}
    /\ csvResult = NoCsvResult

\* The tasks that use the lock: a get_latest_quotes_bulk call, a
\* get_asset_profile call and a reconfiguration.
Tasks == {"bulk", "profile", "writer"}

FreeLock == [readers |-> 0, writer |-> FALSE, waiters |-> <<>>]

LockIdle ==
    /\ rw_lock = FreeLock
    /\ task_pc = [t \in Tasks |-> "idle"]
    /\ groups_left = 0

OthersIdle == CsvIdle /\ LockIdle

-----------------------------------------------------------------------------
(* Specification of the construction *)

InitNew ==
    /\ settings = <<>>
    /\ lookups = <<>>
    /\ newResult = "none"
    /\ registry = EmptyRegistry
    /\ pc = "idle"
    /\ RouteIdle
    /\ SearchIdle
    /\ BulkIdle
    /\ LatestIdle
    /\ ValidateIdle
    /\ ImportIdle
    /\ OthersIdle

Construct ==
    /\ newResult = "none"
    /\ \E ss \in SettingsLists :
         \E ls \in LookupLists(ss) :
            /\ settings' = ss
            /\ lookups' = ls
            /\ newResult' = New(ss, ls).kind
            /\ registry' = New(ss, ls).registry
    /\ UNCHANGED <<pc, routeVars, searchVars, bulkVars, quoteVars>>

NextNew == Construct

SpecNew == InitNew /\ [][NextNew]_vars

EnabledIds == { settings[i].id : i \in { j \in DOMAIN settings : settings[j].enabled } }

RegistryIds(r) ==
    r.data_providers \cup r.asset_profilers
      \cup Range(r.ordered_data_provider_ids) \cup Range(r.ordered_profiler_ids)

\* C5: a constructed registry holds no id of a disabled setting, in neither
\* ordered id list and in neither map.
C5_NoDisabledProvider ==
    newResult = "Ok" => RegistryIds(registry) \subseteq EnabledIds

C5_Witness ==
    /\ newResult = "Ok"
    /\ \E i \in DOMAIN settings : ~settings[i].enabled
    /\ registry.data_providers # {}
    /\ registry.asset_profilers # {}

IndexOfId(id) == CHOOSE i \in DOMAIN settings : settings[i].id = id

\* C6: ordered_data_provider_ids lists the registered providers once each,
\* with non-decreasing priority, and providers of equal priority in the
\* order of the settings list.
C6_StableSortByPriority ==
    newResult = "Ok" =>
        LET ids == registry.ordered_data_provider_ids IN
        /\ Range(ids) = registry.data_providers
        /\ \A i, j \in DOMAIN ids :
             i < j =>
               /\ ids[i] # ids[j]
               /\ settings[IndexOfId(ids[i])].priority <= settings[IndexOfId(ids[j])].priority
               /\ settings[IndexOfId(ids[i])].priority = settings[IndexOfId(ids[j])].priority
                     => IndexOfId(ids[i]) < IndexOfId(ids[j])
        /\ ( settings = << [id |-> DATA_SOURCE_YAHOO, priority |-> 2, enabled |-> TRUE],
                           [id |-> DATA_SOURCE_MANUAL, priority |-> 1, enabled |-> TRUE] >>
             /\ lookups[2].secret # "Err"
             => ids = <<DATA_SOURCE_MANUAL, DATA_SOURCE_YAHOO>> )

C6_Witness ==
    /\ newResult = "Ok"
    /\ Len(registry.ordered_data_provider_ids) = 2
    /\ settings[1].priority = settings[2].priority
    /\ registry.ordered_data_provider_ids = <<settings[1].id, settings[2].id>>

\* The settings whose provider can be instantiated, from the answers of the
\* secret manager alone.
Instantiable(i) ==
    /\ settings[i].enabled
    /\ CASE settings[i].id \in {DATA_SOURCE_YAHOO, DATA_SOURCE_VN_MARKET} -> TRUE
         [] settings[i].id = DATA_SOURCE_MANUAL -> lookups[i].secret # "Err"
         [] settings[i].id = UNKNOWN_PROVIDER -> FALSE
         [] OTHER -> lookups[i].secret = "Key"

BadSecret(i) ==
    /\ settings[i].enabled
    /\ settings[i].id \notin {DATA_SOURCE_YAHOO, DATA_SOURCE_VN_MARKET}
    /\ lookups[i].secret \in {"Err", "None", "Empty"}

\* C7: construction fails only when a provider's constructor fails, never
\* because of a secret; a provider whose secret lookup fails or whose key
\* is missing or empty is left out, and every other enabled provider that
\* can be instantiated is registered.
C7_BadSecretNeverAborts ==
    /\ newResult = "Err" => \E i \in DOMAIN settings : settings[i].enabled /\ ~lookups[i].initOk
    /\ newResult = "Ok" =>
         registry.data_providers = { settings[i].id : i \in { j \in DOMAIN settings : Instantiable(j) } }

C7_Witness ==
    /\ newResult = "Ok"
    /\ \E i, j \in DOMAIN settings :
         /\ BadSecret(i) /\ lookups[i].secret = "Err"
         /\ settings[i].id \notin registry.data_providers
         /\ settings[j].id \in registry.data_providers

-----------------------------------------------------------------------------
(* MarketDataService::update_provider_setting *)

\* `self.repository.update_provider_settings(provider_id, update)` with
\* update = { priority: Some(priority), enabled: Some(enabled) }: the
\* persisted setting of that id gets the two values.
UpdateProviderSettings(ss, provider_id, priority, enabled) ==
    [i \in DOMAIN ss |->
        IF ss[i].id = provider_id
        THEN [ss[i] EXCEPT !.priority = priority, !.enabled = enabled]
        ELSE ss[i]]

\* The service after start-up: the registry built from the persisted
\* settings, here all enabled and instantiable.
InitService ==
    /\ settings \in { ss \in SettingsLists :
                         \A i \in DOMAIN ss : ss[i].enabled /\ ss[i].id \in KnownIds }
    /\ lookups = OkLookups(settings)
    /\ newResult = "Ok"
    /\ registry = New(settings, lookups).registry
    /\ pc = "idle"
    /\ RouteIdle
    /\ SearchIdle
    /\ BulkIdle
    /\ LatestIdle
    /\ ValidateIdle
    /\ ImportIdle
    /\ OthersIdle

\* update_provider_setting: the repository is updated (or fails, and the
\* error is returned); the registry is not touched.
UpdateProviderSetting ==
    /\ pc = "idle"
    /\ \E provider_id \in KnownIds, priority \in 1..MaxPriority, enabled \in BOOLEAN :
         \E outcome \in {"Ok", "Err"} :
            settings' = IF outcome = "Ok"
                        THEN UpdateProviderSettings(settings, provider_id, priority, enabled)
                        ELSE settings
    /\ UNCHANGED <<lookups, newResult, registry, pc, routeVars, searchVars, bulkVars,
                   quoteVars>>

NextService == UpdateProviderSetting

SpecService == InitService /\ [][NextService]_vars

\* C25: neither map of the live registry holds a provider whose persisted
\* setting is disabled.
C25_RegistryFollowsSettings ==
    \A i \in DOMAIN settings :
        ~settings[i].enabled =>
            settings[i].id \notin registry.data_providers \cup registry.asset_profilers

-----------------------------------------------------------------------------
(* ProviderRegistry::get_provider_for_symbol *)

DOT_VN == <<".", "V", "N">>
DOT_vn == <<".", "v", "n">>

AcceptsAnyProvider(provider_id, sym) == TRUE

AcceptsNonVnOnly(provider_id, sym) == provider_id # DATA_SOURCE_VN_MARKET

\* The routing heuristic applied to one provider id of the loop.
Accepts(provider_id, sym) ==
    IF ends_with(sym, DOT_VN) \/ ends_with(sym, DOT_vn)
    THEN provider_id = DATA_SOURCE_VN_MARKET
    ELSE provider_id # DATA_SOURCE_VN_MARKET

get_provider_for_symbol(r, sym) ==
    LET hits == { i \in DOMAIN r.ordered_data_provider_ids :
                    /\ r.ordered_data_provider_ids[i] \in r.data_providers
                    /\ Accepts(r.ordered_data_provider_ids[i], sym) }
    IN IF hits = {} THEN None
       ELSE r.ordered_data_provider_ids[CHOOSE i \in hits : \A j \in hits : i <= j]

Symbols == SeqsUpTo(Alphabet, MaxSymLen)

-----------------------------------------------------------------------------
(* Specification of the routing *)

InitRoute ==
    /\ settings = <<>>
    /\ lookups = <<>>
    /\ newResult = "Ok"
    /\ registry \in Registries
    /\ pc = "idle"
    /\ RouteIdle
    /\ SearchIdle
    /\ BulkIdle
    /\ LatestIdle
    /\ ValidateIdle
    /\ ImportIdle
    /\ OthersIdle

GetProviderForSymbol ==
    /\ pc = "idle"
    /\ \E sym \in Symbols :
         /\ symbol' = sym
         /\ routed' = get_provider_for_symbol(registry, sym)
    /\ pc' = "routed"
    /\ UNCHANGED <<newVars, searchVars, bulkVars, quoteVars>>

RouteReturn ==
    /\ pc = "routed"
    /\ pc' = "idle"
    /\ symbol' = <<>>
    /\ routed' = None
    /\ UNCHANGED <<newVars, searchVars, bulkVars, quoteVars>>

NextRoute == GetProviderForSymbol \/ RouteReturn

SpecRoute == InitRoute /\ [][NextRoute]_vars

\* C2: a symbol ending in ".VN" is routed to VN_MARKET when VN_MARKET is
\* registered and to no provider otherwise.
C2_VnSuffixRoutesToVnMarket ==
    pc = "routed" /\ ends_with(symbol, DOT_VN) =>
        routed = IF DATA_SOURCE_VN_MARKET \in registry.data_providers
                 THEN DATA_SOURCE_VN_MARKET ELSE None

C2_Witness ==
    /\ pc = "routed" /\ ends_with(symbol, DOT_VN)
    /\ routed = DATA_SOURCE_VN_MARKET
    /\ registry.ordered_data_provider_ids[1] # DATA_SOURCE_VN_MARKET

C2_WitnessNone ==
    /\ pc = "routed" /\ ends_with(symbol, DOT_VN)
    /\ routed = None
    /\ registry.data_providers # {}

NonVnIndexes(r) ==
    { i \in DOMAIN r.ordered_data_provider_ids :
        r.ordered_data_provider_ids[i] # DATA_SOURCE_VN_MARKET }

\* C3: a symbol without the .VN suffix (in any case) is routed to the
\* earliest provider of the priority order that is not VN_MARKET, and to no
\* provider when there is none.
C3_OtherSymbolsRouteToFirstNonVn ==
    pc = "routed" /\ ~ends_with(to_uppercase(symbol), DOT_VN) =>
        IF NonVnIndexes(registry) = {} THEN routed = None
        ELSE \E i \in NonVnIndexes(registry) :
                /\ routed = registry.ordered_data_provider_ids[i]
                /\ \A j \in NonVnIndexes(registry) : i <= j

C3_Witness ==
    /\ pc = "routed" /\ ~ends_with(to_uppercase(symbol), DOT_VN)
    /\ Len(symbol) > 0
    /\ Len(registry.ordered_data_provider_ids) = 2
    /\ registry.ordered_data_provider_ids[1] = DATA_SOURCE_VN_MARKET
    /\ routed = registry.ordered_data_provider_ids[2]

\* C4: the suffix test ignores case: a symbol ending in ".VN", ".vn", ".Vn"
\* or ".vN" is routed to VN_MARKET when registered and to no provider
\* otherwise.
C4_SuffixCaseInsensitive ==
    pc = "routed" /\ ends_with(to_uppercase(symbol), DOT_VN) =>
        routed = IF DATA_SOURCE_VN_MARKET \in registry.data_providers
                 THEN DATA_SOURCE_VN_MARKET ELSE None

-----------------------------------------------------------------------------
(* ProviderRegistry::search_ticker *)

\* `all_results.truncate(10)`
SearchLimit == 10

VN_INDICATOR == <<"V", "N">>

contains_vn_indicator(q) == contains(to_uppercase(q), VN_INDICATOR)

\* QuoteSummary, reduced to the fields search_ticker reads.  Scores are
\* ranks: a greater number is a greater f64 score.
SummarySymbols == {"X", "Y"}
Scores == {1, 2}
QuoteSummary == [symbol : SummarySymbols, score : Scores]

SearchOrderByPriority(r, q) == r.ordered_profiler_ids

\* `let search_order = ...`
SearchOrder(r, q) ==
    IF contains_vn_indicator(q)
    THEN (IF DATA_SOURCE_VN_MARKET \in Range(r.ordered_profiler_ids)
          THEN <<DATA_SOURCE_VN_MARKET>> ELSE <<>>)
         \o SelectSeq(r.ordered_profiler_ids, LAMBDA id : id # DATA_SOURCE_VN_MARKET)
    ELSE r.ordered_profiler_ids

\* `all_results.append(&mut results)`: Vec::append moves every element out
\* of `results`, which is left empty.
AppendTo(all, found) == [all |-> all \o found, other |-> <<>>]

BreakAfterOkNonEmptyOnly(found, q, profiler_id) == found # <<>>

\* The condition of the `break` in the Ok arm, on what `results` holds
\* when it is evaluated.
BreakAfterOk(found, q, profiler_id) ==
    found # <<>> \/ (contains_vn_indicator(q) /\ profiler_id = DATA_SOURCE_VN_MARKET)

InsertAtScoreAscending(sorted, x) ==
    LET later == { j \in 1..Len(sorted) : sorted[j].score > x.score }
    IN IF later = {} THEN Len(sorted) + 1
       ELSE CHOOSE j \in later : \A k \in later : j <= k

\* Position at which the stable descending sort places x: after every
\* element whose score is not smaller.
InsertAtScore(sorted, x) ==
    LET later == { j \in 1..Len(sorted) : sorted[j].score < x.score }
    IN IF later = {} THEN Len(sorted) + 1
       ELSE CHOOSE j \in later : \A k \in later : j <= k

RECURSIVE SortByScoreFrom(_, _, _)
SortByScoreFrom(seq, i, sorted) ==
    IF i > Len(seq) THEN sorted
    ELSE SortByScoreFrom(seq, i + 1,
             InsertInto(sorted, seq[i], InsertAtScore(sorted, seq[i])))

\* `all_results.sort_by(|a, b| b.score.partial_cmp(&a.score)...)`
sort_by_score(seq) == SortByScoreFrom(seq, 1, <<>>)

\* `all_results.dedup_by(|a, b| a.symbol == b.symbol)`: Vec::dedup_by drops
\* an element when it equals, by symbol, the element kept just before it.
RECURSIVE DedupFrom(_, _, _)
DedupFrom(seq, i, kept) ==
    IF i > Len(seq) THEN kept
    ELSE IF kept # <<>> /\ seq[i].symbol = kept[Len(kept)].symbol
         THEN DedupFrom(seq, i + 1, kept)
         ELSE DedupFrom(seq, i + 1, Append(kept, seq[i]))

dedup_by(seq) == DedupFrom(seq, 1, <<>>)

truncate(seq, n) == IF Len(seq) > n THEN SubSeq(seq, 1, n) ELSE seq

FinishSearchAnyError(all, errs) ==
    IF errs # <<>>
    THEN [kind |-> "Err", results |-> <<>>, error |-> errs[Len(errs)]]
    ELSE [kind |-> "Ok",
          results |-> truncate(dedup_by(sort_by_score(all)), SearchLimit),
          error |-> None]

\* The end of search_ticker, after the loop.
FinishSearch(all, errs) ==
    IF all = <<>> /\ errs # <<>>
    THEN [kind |-> "Err", results |-> <<>>, error |-> errs[Len(errs)]]
    ELSE [kind |-> "Ok",
          results |-> truncate(dedup_by(sort_by_score(all)), SearchLimit),
          error |-> None]

\* What a profiler's search_ticker may answer.
OkAnswer(found) == [kind |-> "Ok", results |-> found]
ErrAnswer == [kind |-> "Err", results |-> <<>>]

\* A list longer than the limit whose neighbours never share a symbol.
LongList ==
    [i \in 1..(SearchLimit + 1) |->
        [symbol |-> IF i % 2 = 1 THEN "X" ELSE "Y", score |-> 1]]

ResultLists == SeqsUpTo(QuoteSummary, MaxResultLen) \cup {LongList}

IsRanked(found) ==
    \A i, j \in DOMAIN found : i < j => found[i].score >= found[j].score

starts_with(s, prefix) ==
    /\ Len(s) >= Len(prefix)
    /\ SubSeq(s, 1, Len(prefix)) = prefix

IsAsciiDigit(c) == c \in {"0", "1", "2", "3", "4", "5", "6", "7", "8", "9"}

\* Of the characters of the model only "." and "_" are not alphanumeric.
IsAsciiAlphanumeric(c) == c \notin {".", "_"}

GLOBAL_SYMBOLS ==
    { <<"G", "O", "L", "D">>, <<"S", "I", "L", "V", "E", "R">>, <<"O", "I", "L">>,
      <<"G", "A", "S">>, <<"C", "O", "P", "P", "E", "R">>,
      <<"P", "L", "A", "T", "I", "N", "U", "M">> }

VN_INDEXES ==
    { <<"V", "N", "I", "N", "D", "E", "X">>, <<"V", "N", "3", "0">>, <<"H", "N", "X">>,
      <<"H", "N", "X", "3", "0">>, <<"U", "P", "C", "O", "M">>, <<"V", "N">>,
      <<"V", "N", "I">> }

\* VnMarketProvider::search_ticker asks its service only for queries that
\* look Vietnamese (`should_search`) and are not blocked global symbols.
VnShouldSearch(q) ==
    LET query_upper == to_uppercase(q)
        is_vn_prefixed == starts_with(query_upper, <<"V", "N", "_">>)
        is_vn_suffix == ends_with(q, DOT_VN) \/ ends_with(q, DOT_vn)
        is_vn_index == query_upper \in VN_INDEXES
        is_likely_vn_stock ==
            /\ Len(q) >= 3 /\ Len(q) <= 5
            /\ \A i \in DOMAIN q : IsAsciiAlphanumeric(q[i])
            /\ \/ starts_with(q, <<"V", "N">>)
               \/ starts_with(q, <<"H", "N">>)
               \/ starts_with(q, <<"U", "P">>)
               \/ \E i \in DOMAIN q : IsAsciiDigit(q[i])
               \/ Len(q) = 3
    IN /\ ~(~is_vn_prefixed /\ query_upper \in GLOBAL_SYMBOLS)
       /\ (is_vn_prefixed \/ is_vn_suffix \/ is_vn_index \/ is_likely_vn_stock)

\* VnMarketProvider::search_ticker: nothing when it does not search or the
\* service answers with an error status, an error when the request or the
\* parsing fails, otherwise at most 10 results sorted by descending score.
VnMarketAnswers(q) ==
    IF VnShouldSearch(q)
    THEN {ErrAnswer}
         \cup { OkAnswer(l) : l \in { r \in ResultLists : IsRanked(r) /\ Len(r) <= 10 } }
    ELSE {OkAnswer(<<>>)}

\* ManualProvider::search_ticker returns Ok(vec![]); the other profilers
\* are remote services that may answer anything.
ProfilerAnswers(profiler_id, q) ==
    CASE profiler_id = DATA_SOURCE_MANUAL -> {OkAnswer(<<>>)}
      [] profiler_id = DATA_SOURCE_VN_MARKET -> VnMarketAnswers(q)
      [] OTHER -> {ErrAnswer} \cup { OkAnswer(l) : l \in ResultLists }

SearchQueries ==
    { <<"A">>, <<"A", "A", "A">>, <<"V", "N">>, <<"A", ".", "v", "n">>, <<"H", "N", "X">> }

\* Registries of three profilers, for the order of the profilers that
\* follow VN_MARKET: every order of YAHOO, ALPHA_VANTAGE and VN_MARKET.
WideProfilerIds == {DATA_SOURCE_YAHOO, DATA_SOURCE_ALPHA_VANTAGE, DATA_SOURCE_VN_MARKET}

WideSettingsLists ==
    { ss \in [1..3 -> [id : WideProfilerIds, priority : {1}, enabled : {TRUE}]] :
        DistinctIds(ss) }

WideRegistries == { New(ss, OkLookups(ss)).registry : ss \in WideSettingsLists }

SearchRegistries == Registries \cup WideRegistries

-----------------------------------------------------------------------------
(* Specification of the search *)

InitSearch ==
    /\ settings = <<>>
    /\ lookups = <<>>
    /\ newResult = "Ok"
    /\ registry \in SearchRegistries
    /\ pc = "idle"
    /\ RouteIdle
    /\ SearchIdle
    /\ BulkIdle
    /\ LatestIdle
    /\ ValidateIdle
    /\ ImportIdle
    /\ OthersIdle

\* search_ticker up to the loop.
SearchTicker ==
    /\ pc = "idle"
    /\ \E q \in SearchQueries :
         /\ query' = q
         /\ search_order' = SearchOrder(registry, q)
    /\ next_profiler' = 1
    /\ all_results' = <<>>
    /\ errors' = <<>>
    /\ visited' = <<>>
    /\ searchResult' = NoResult
    /\ pc' = "search"
    /\ UNCHANGED <<newVars, routeVars, bulkVars, quoteVars>>

\* One iteration of `for profiler_id in &search_order`: the profiler's
\* answer arrives and is accumulated or recorded.
SearchVisit ==
    /\ pc = "search"
    /\ next_profiler <= Len(search_order)
    /\ LET profiler_id == search_order[next_profiler] IN
       IF profiler_id \notin registry.asset_profilers
       THEN /\ next_profiler' = next_profiler + 1
            /\ UNCHANGED <<all_results, errors, visited>>
       ELSE \E answer \in ProfilerAnswers(profiler_id, query) :
              /\ visited' = Append(visited, [id |-> profiler_id, answer |-> answer])
              /\ IF answer.kind = "Ok"
                 THEN LET appended == AppendTo(all_results, answer.results) IN
                      /\ all_results' = appended.all
                      /\ errors' = errors
                      /\ next_profiler' =
                           IF BreakAfterOk(appended.other, query, profiler_id)
                           THEN Len(search_order) + 1
                           ELSE next_profiler + 1
                 ELSE /\ all_results' = all_results
                      /\ errors' = Append(errors, profiler_id)
                      /\ next_profiler' = next_profiler + 1
    /\ UNCHANGED <<newVars, routeVars, bulkVars, quoteVars, pc, query, search_order, searchResult>>

\* After the loop: the aggregate error, or the post-processed results.
SearchFinish ==
    /\ pc = "search"
    /\ next_profiler > Len(search_order)
    /\ searchResult' = FinishSearch(all_results, errors)
    /\ pc' = "search_done"
    /\ UNCHANGED <<newVars, routeVars, bulkVars, quoteVars, query, search_order, next_profiler,
                   all_results, errors, visited>>

SearchReturn ==
    /\ pc = "search_done"
    /\ pc' = "idle"
    /\ query' = <<>>
    /\ search_order' = <<>>
    /\ next_profiler' = 1
    /\ all_results' = <<>>
    /\ errors' = <<>>
    /\ visited' = <<>>
    /\ searchResult' = NoResult
    /\ UNCHANGED <<newVars, routeVars, bulkVars, quoteVars>>

NextSearch == SearchTicker \/ SearchVisit \/ SearchFinish \/ SearchReturn

SpecSearch == InitSearch /\ [][NextSearch]_vars

\* C8: a successful search returns at most 10 entries, in non-increasing
\* order of score.
C8_AtMostTenRanked ==
    pc = "search_done" /\ searchResult.kind = "Ok" =>
        /\ Len(searchResult.results) <= 10
        /\ \A i, j \in DOMAIN searchResult.results :
             i < j => searchResult.results[i].score >= searchResult.results[j].score

C8_Witness ==
    /\ pc = "search_done" /\ searchResult.kind = "Ok"
    /\ Len(all_results) > 10
    /\ Len(searchResult.results) = 10
    /\ \E i \in DOMAIN all_results : all_results[i].score > all_results[1].score

\* C9: no two entries of a successful search result share a symbol.
C9_NoDuplicateSymbols ==
    pc = "search_done" /\ searchResult.kind = "Ok" =>
        \A i, j \in DOMAIN searchResult.results :
            i # j => searchResult.results[i].symbol # searchResult.results[j].symbol

\* C10: after a profiler has answered Ok with at least one summary, no
\* further profiler is called in that search.
C10_StopsAtFirstNonEmpty ==
    \A i \in DOMAIN visited :
        visited[i].answer.kind = "Ok" /\ visited[i].answer.results # <<>>
            => i = Len(visited)

VisitedIds == [i \in DOMAIN visited |-> visited[i].id]

IsPrefix(s, t) == Len(s) <= Len(t) /\ SubSeq(t, 1, Len(s)) = s

NonVn(ids) == SelectSeq(ids, LAMBDA id : id # DATA_SOURCE_VN_MARKET)

VnPrioritized ==
    /\ contains_vn_indicator(query)
    /\ DATA_SOURCE_VN_MARKET \in registry.asset_profilers

\* C11: when the query contains "VN" (in any case) and a VN_MARKET profiler
\* is registered, VN_MARKET is the first profiler called and the other
\* profilers are called in their priority order; without the indicator the
\* profilers are called in priority order.
C11_VnMarketFirst ==
    pc \in {"search", "search_done"} =>
        IF VnPrioritized
        THEN /\ visited # <<>> => visited[1].id = DATA_SOURCE_VN_MARKET
             /\ \A i \in DOMAIN visited :
                   i > 1 => visited[i].id # DATA_SOURCE_VN_MARKET
             /\ IsPrefix(NonVn(VisitedIds), NonVn(registry.ordered_profiler_ids))
        ELSE IsPrefix(VisitedIds, registry.ordered_profiler_ids)

C11_Witness ==
    /\ pc = "search_done"
    /\ VnPrioritized
    /\ Len(registry.ordered_profiler_ids) = 3
    /\ registry.ordered_profiler_ids[3] = DATA_SOURCE_VN_MARKET
    /\ Len(visited) = 3
    /\ visited[1].id = DATA_SOURCE_VN_MARKET

VnAnswered(i) ==
    /\ visited[i].id = DATA_SOURCE_VN_MARKET
    /\ visited[i].answer.kind = "Ok"

\* C12: in a search whose query contains "VN", no profiler is called after
\* VN_MARKET has answered, even with no result, and the search returns Ok
\* with summaries of VN_MARKET's answer only.
C12_VnMarketEndsSearch ==
    contains_vn_indicator(query) =>
        \A i \in DOMAIN visited :
            VnAnswered(i) =>
                /\ i = Len(visited)
                /\ pc = "search_done" =>
                      /\ searchResult.kind = "Ok"
                      /\ Range(searchResult.results) \subseteq Range(visited[i].answer.results)
                      /\ searchResult.results = <<>> <=> visited[i].answer.results = <<>>

C12_Witness ==
    /\ pc = "search_done"
    /\ contains_vn_indicator(query)
    /\ Len(search_order) > 1
    /\ Len(visited) = 1
    /\ VnAnswered(1)
    /\ visited[1].answer.results = <<>>
    /\ searchResult = [kind |-> "Ok", results |-> <<>>, error |-> None]

Failed(i) == visited[i].answer.kind = "Err"

SomeVisitedFailed == \E i \in DOMAIN visited : Failed(i)

\* The summaries of the Ok answers.
Found == UNION { Range(visited[i].answer.results) : i \in DOMAIN visited }

\* C13: the search returns the aggregate error, naming the last profiler
\* error, exactly when no summary was accumulated and some called profiler
\* failed; otherwise it returns Ok with accumulated summaries; and the
\* profiler after a failed one is still called.
C13_AggregateErrorIffEmptyAndFailed ==
    pc = "search_done" =>
        /\ searchResult.kind = "Err" <=> (Found = {} /\ SomeVisitedFailed)
        /\ searchResult.kind = "Err" =>
              \E i \in DOMAIN visited :
                  /\ Failed(i)
                  /\ \A j \in DOMAIN visited : Failed(j) => j <= i
                  /\ searchResult.error = visited[i].id
        /\ searchResult.kind = "Ok" =>
              /\ Range(searchResult.results) \subseteq Found
              /\ searchResult.results = <<>> <=> Found = {}
        /\ \A i \in DOMAIN visited :
              Failed(i) /\ i < Len(search_order) => i < Len(visited)

C13_Witness ==
    /\ pc = "search_done"
    /\ Len(visited) = 3
    /\ Failed(1) /\ ~Failed(2) /\ Failed(3)
    /\ searchResult = [kind |-> "Err", results |-> <<>>, error |-> visited[3].id]

\* C14: a search in which a called profiler answered Ok, even with no
\* summary, returns Ok.
C14_ErrorOnlyWhenAllFailed ==
    pc = "search_done" /\ (\E i \in DOMAIN visited : ~Failed(i)) =>
        searchResult.kind = "Ok"

\* The queries test_contains_vn_indicator lists as positive: those with
\* "VN" in either case, and the exchange names HNX and UPCOM.
ListedAsRegional(q) ==
    \/ contains(to_uppercase(q), VN_INDICATOR)
    \/ to_uppercase(q) \in { <<"H", "N", "X">>, <<"U", "P", "C", "O", "M">> }

\* C24: contains_vn_indicator is true of the queries that contain "VN" in
\* either case and of "HNX" and "UPCOM", and false of every other query.
C24_IndicatorCoversExchanges ==
    pc \in {"search", "search_done"} =>
        (contains_vn_indicator(query) <=> ListedAsRegional(query))

-----------------------------------------------------------------------------
(* MarketDataService::get_latest_quotes_bulk *)

\* QuoteRequest.  The symbols cover both routes: two symbols without the
\* suffix and one with it.
RequestSymbols == { <<"A">>, <<"N">>, <<"A", ".", "V", "N">> }
DataSources == {"YAHOO", "MANUAL"}
QuoteRequest == [symbol : RequestSymbols, currency : {"USD"}, data_source : DataSources]

\* With at most MaxQuotes quotes in an answer, that many timestamps tell
\* every ordering of them apart.
Timestamps == 1..MaxQuotes

\* Quote, reduced to the fields get_latest_quotes_bulk reads.
Quote == [symbol : RequestSymbols, timestamp : Timestamps]

\* The first loop: the requests of each resolved provider, in request
\* order (`provider_requests.entry(..).or_default().push(..)`).
GroupOf(r, reqs, provider_name) ==
    SelectSeq(reqs, LAMBDA req : get_provider_for_symbol(r, req.symbol) = provider_name)

ProviderRequests(r, reqs) ==
    [ provider_name \in { get_provider_for_symbol(r, reqs[i].symbol) : i \in DOMAIN reqs } \ {None}
        |-> GroupOf(r, reqs, provider_name) ]

\* The requests without a provider (`failed_requests.push(request.clone())`).
Unresolved(r, reqs) ==
    SelectSeq(reqs, LAMBDA req : get_provider_for_symbol(r, req.symbol) = None)

\* `symbols_with_currencies`
SymbolsWithCurrencies(requests) ==
    [i \in DOMAIN requests |-> [symbol |-> requests[i].symbol, currency |-> requests[i].currency]]

KeepLaterOrEqual(existing, quote) ==
    IF quote.timestamp >= existing.timestamp THEN quote ELSE existing

\* The `and_modify` closure: the entry is replaced only by a quote whose
\* timestamp is strictly greater.
KeepLater(existing, quote) ==
    IF quote.timestamp > existing.timestamp THEN quote ELSE existing

\* The loop over `quotes`: the map symbol -> latest quote.
RECURSIVE LatestFrom(_, _, _)
LatestFrom(quotes, i, latest_quotes) ==
    IF i > Len(quotes) THEN latest_quotes
    ELSE LET quote == quotes[i] IN
         IF quote.symbol \in DOMAIN latest_quotes
         THEN LatestFrom(quotes, i + 1,
                  [latest_quotes EXCEPT ![quote.symbol] = KeepLater(@, quote)])
         ELSE LatestFrom(quotes, i + 1,
                  [s \in DOMAIN latest_quotes \cup {quote.symbol} |->
                      IF s = quote.symbol THEN quote ELSE latest_quotes[s]])

LatestQuotes(quotes) == LatestFrom(quotes, 1, [s \in {} |-> <<>>])

\* `latest_quotes.into_values()`: the values in any order.
IntoValues(m) ==
    { vs \in [1..Cardinality(DOMAIN m) -> Range(m)] :
        \A s \in DOMAIN m : \E i \in DOMAIN vs : vs[i] = m[s] }

Min(a, b) == IF a < b THEN a ELSE b

\* `failed_symbols.into_iter().zip(requests.iter()).map(..)`: the i-th
\* failed symbol with the data_source of the i-th request of the group.
FailedFromSymbols(failed_symbols, requests) ==
    [i \in 1..Min(Len(failed_symbols), Len(requests)) |->
        [symbol |-> failed_symbols[i].symbol,
         currency |-> failed_symbols[i].currency,
         data_source |-> requests[i].data_source]]

FinishBulkPartial(res, failed) ==
    IF failed = <<>> \/ res # <<>>
    THEN [kind |-> "Ok", quotes |-> res, failed |-> 0]
    ELSE [kind |-> "Err", quotes |-> <<>>, failed |-> Len(failed)]

\* The end of get_latest_quotes_bulk.
FinishBulk(res, failed) ==
    IF failed = <<>>
    THEN [kind |-> "Ok", quotes |-> res, failed |-> 0]
    ELSE [kind |-> "Err", quotes |-> <<>>, failed |-> Len(failed)]

\* What get_historical_quotes_bulk may answer.
BulkErr == [kind |-> "Err", quotes |-> <<>>, failed_symbols |-> <<>>]
BulkOk(quotes, failed_symbols) ==
    [kind |-> "Ok", quotes |-> quotes, failed_symbols |-> failed_symbols]

\* The sub-lists of a list, in its order.
SubLists(seq) ==
    { SelectSeq([i \in DOMAIN seq |-> [at |-> i, value |-> seq[i]]],
                LAMBDA e : e.at \in keep) : keep \in SUBSET (DOMAIN seq) }

Values(entries) == [i \in DOMAIN entries |-> entries[i].value]

\* A provider answers with quotes of the symbols it was asked for and
\* reports some of them as failed, or fails as a whole.
OkBulkAnswers(requests) ==
    { BulkOk(quotes, Values(failed)) :
        quotes \in SeqsUpTo({ q \in Quote : \E i \in DOMAIN requests : requests[i].symbol = q.symbol },
                            MaxQuotes),
        failed \in SubLists(SymbolsWithCurrencies(requests)) }

\* ManualProvider::get_historical_quotes_bulk always returns Err;
\* VnMarketProvider's collects per-symbol failures and returns Ok.
BulkAnswers(provider_name, requests) ==
    CASE provider_name = DATA_SOURCE_MANUAL -> {BulkErr}
      [] provider_name = DATA_SOURCE_VN_MARKET -> OkBulkAnswers(requests)
      [] OTHER -> {BulkErr} \cup OkBulkAnswers(requests)

\* For bulk retrieval the remote providers differ by name only: YAHOO
\* stands for them.
BulkRegistries ==
    { r \in Registries :
        r.data_providers \subseteq {DATA_SOURCE_YAHOO, DATA_SOURCE_VN_MARKET, DATA_SOURCE_MANUAL} }

Without(m, key) == [k \in DOMAIN m \ {key} |-> m[k]]

With(m, key, value) == [k \in DOMAIN m \cup {key} |-> IF k = key THEN value ELSE m[k]]

-----------------------------------------------------------------------------
(* Specification of the bulk retrieval *)

InitBulk ==
    /\ settings = <<>>
    /\ lookups = <<>>
    /\ newResult = "Ok"
    /\ registry \in BulkRegistries
    /\ pc = "idle"
    /\ RouteIdle
    /\ SearchIdle
    /\ BulkIdle
    /\ LatestIdle
    /\ ValidateIdle
    /\ ImportIdle
    /\ OthersIdle

\* get_latest_quotes_bulk up to the loop over the groups.
GetLatestQuotesBulk ==
    /\ pc = "idle"
    /\ \E reqs \in SeqsUpTo(QuoteRequest, MaxRequests) :
         /\ quote_requests' = reqs
         /\ provider_requests' = ProviderRequests(registry, reqs)
         /\ failed_requests' = Unresolved(registry, reqs)
    /\ group_answers' = EmptyMap
    /\ results' = <<>>
    /\ bulkResult' = NoQuotes
    /\ pc' = "bulk"
    /\ UNCHANGED <<newVars, routeVars, searchVars, quoteVars>>

\* One iteration of `for (provider_name, requests) in provider_requests`
\* (a HashMap: any order): the provider's answer arrives.
BulkGroup ==
    /\ pc = "bulk"
    /\ \E provider_name \in DOMAIN provider_requests :
         LET requests == provider_requests[provider_name] IN
         /\ provider_requests' = Without(provider_requests, provider_name)
         /\ IF provider_name \notin registry.data_providers
            THEN UNCHANGED <<group_answers, results, failed_requests>>
            ELSE \E answer \in BulkAnswers(provider_name, requests) :
                   /\ group_answers' = With(group_answers, provider_name, answer)
                   /\ IF answer.kind = "Ok"
                      THEN /\ \E values \in IntoValues(LatestQuotes(answer.quotes)) :
                                results' = results \o values
                           /\ failed_requests' =
                                failed_requests \o FailedFromSymbols(answer.failed_symbols, requests)
                      ELSE /\ results' = results
                           /\ failed_requests' = failed_requests \o requests
    /\ UNCHANGED <<newVars, routeVars, searchVars, quoteVars, pc, quote_requests, bulkResult>>

BulkFinish ==
    /\ pc = "bulk"
    /\ DOMAIN provider_requests = {}
    /\ bulkResult' = FinishBulk(results, failed_requests)
    /\ pc' = "bulk_done"
    /\ UNCHANGED <<newVars, routeVars, searchVars, quoteVars, quote_requests, provider_requests,
                   group_answers, results, failed_requests>>

BulkReturn ==
    /\ pc = "bulk_done"
    /\ pc' = "idle"
    /\ quote_requests' = <<>>
    /\ provider_requests' = EmptyMap
    /\ group_answers' = EmptyMap
    /\ results' = <<>>
    /\ failed_requests' = <<>>
    /\ bulkResult' = NoQuotes
    /\ UNCHANGED <<newVars, routeVars, searchVars, quoteVars>>

NextBulk == GetLatestQuotesBulk \/ BulkGroup \/ BulkFinish \/ BulkReturn

SpecBulk == InitBulk /\ [][NextBulk]_vars

-----------------------------------------------------------------------------
(* The reduction of one provider answer to the latest quote per symbol *)

MaxGroupQuotes == 3

\* Quotes with a price, which tells apart two quotes of one symbol and one
\* timestamp.
PricedQuote == [symbol : {<<"A">>, <<"N">>}, timestamp : {1, 2}, close : {1, 2}]

InitLatest ==
    /\ settings = <<>>
    /\ lookups = <<>>
    /\ newResult = "Ok"
    /\ registry = EmptyRegistry
    /\ pc = "idle"
    /\ RouteIdle
    /\ SearchIdle
    /\ BulkIdle
    /\ provider_quotes \in SeqsUpTo(PricedQuote, MaxGroupQuotes)
    /\ kept_quotes = <<>>
    /\ ValidateIdle
    /\ ImportIdle
    /\ OthersIdle

\* The Ok arm up to `results.extend(latest_quotes.into_values())`.
KeepLatestQuotes ==
    /\ pc = "idle"
    /\ kept_quotes' \in IntoValues(LatestQuotes(provider_quotes))
    /\ pc' = "latest_done"
    /\ UNCHANGED <<otherVars, newVars, routeVars, searchVars, bulkVars, provider_quotes,
                   validateVars, importVars>>

NextLatest == KeepLatestQuotes

SpecLatest == InitLatest /\ [][NextLatest]_vars

QuotesOf(s) == { i \in DOMAIN provider_quotes : provider_quotes[i].symbol = s }

\* The first of the quotes of symbol s that carry its greatest timestamp.
FirstLatest(s) ==
    CHOOSE i \in QuotesOf(s) :
        /\ \A j \in QuotesOf(s) :
              provider_quotes[j].timestamp <= provider_quotes[i].timestamp
        /\ \A j \in QuotesOf(s) :
              provider_quotes[j].timestamp = provider_quotes[i].timestamp => i <= j

\* C15: the quotes kept from a provider's answer hold, for every symbol of
\* the answer, exactly one quote: the first of those with the greatest
\* timestamp; and no quote of another symbol.
C15_LatestQuotePerSymbol ==
    pc = "latest_done" =>
        /\ \A i \in DOMAIN provider_quotes :
              \E k \in DOMAIN kept_quotes :
                  /\ kept_quotes[k] = provider_quotes[FirstLatest(provider_quotes[i].symbol)]
                  /\ \A l \in DOMAIN kept_quotes :
                        kept_quotes[l].symbol = kept_quotes[k].symbol => l = k
        /\ \A k \in DOMAIN kept_quotes :
              \E i \in DOMAIN provider_quotes : provider_quotes[i].symbol = kept_quotes[k].symbol

C15_Witness ==
    /\ pc = "latest_done"
    /\ Len(provider_quotes) = 3
    /\ Len(kept_quotes) = 1
    /\ provider_quotes[1].timestamp < provider_quotes[2].timestamp
    /\ provider_quotes[2].timestamp = provider_quotes[3].timestamp
    /\ provider_quotes[2].close # provider_quotes[3].close
    /\ kept_quotes[1] = provider_quotes[2]

-----------------------------------------------------------------------------
(* MarketDataService::validate_quote_import *)

MaxPrice == 2

\* Decimal values, and Option<Decimal>.
Prices == (0 - 1)..MaxPrice
OptionalPrices == {Absent} \cup { Some(p) : p \in Prices }

is_sign_negative(p) == p < 0

\* `map_or(false, |p| p.is_sign_negative())`
IsNegative(field) == field # Absent /\ is_sign_negative(field[1])

\* ImportValidationStatus
Valid == [kind |-> "Valid", message |-> ""]
Error(message) == [kind |-> "Error", message |-> message]

\* What AssetRepository::list_by_symbols answers for the row's symbol:
\* an error, no asset, or the asset.
AssetAnswers == {"Err", "Empty", "Found"}

\* `assets.is_err() || assets.as_ref().unwrap().is_empty()`
AssetUnknown(answer) == answer = "Err" \/ answer = "Empty"

NegativePrice(row) ==
    \/ IsNegative(row.open)
    \/ IsNegative(row.high)
    \/ IsNegative(row.low)
    \/ is_sign_negative(row.close)

HighBelowOpen(row) ==
    row.high # Absent /\ row.open # Absent /\ row.high[1] < row.open[1]

HighNotAboveClose(row) == row.high # Absent /\ row.high[1] <= row.close

HighBelowClose(row) == row.high # Absent /\ row.high[1] < row.close

HighBelowLow(row) ==
    row.high # Absent /\ row.low # Absent /\ row.high[1] < row.low[1]

LowAboveOpen(row) ==
    row.low # Absent /\ row.open # Absent /\ row.low[1] > row.open[1]

LowAboveClose(row) == row.low # Absent /\ row.low[1] > row.close

NegativeVolumeIgnored(row) == FALSE

NegativeVolume(row) == IsNegative(row.volume)

ASSET_NOT_FOUND == "Asset not found"

\* validate_quote_import: the checks in the order of the code, each with
\* its early return.
validate_quote_import(row, answer) ==
    IF AssetUnknown(answer) THEN Error(ASSET_NOT_FOUND)
    ELSE IF NegativePrice(row) THEN Error("Prices cannot be negative")
    ELSE IF HighBelowOpen(row) THEN Error("High price must be >= open price")
    ELSE IF HighBelowClose(row) THEN Error("High price must be >= close price")
    ELSE IF HighBelowLow(row) THEN Error("High price must be >= low price")
    ELSE IF LowAboveOpen(row) THEN Error("Low price must be <= open price")
    ELSE IF LowAboveClose(row) THEN Error("Low price must be <= close price")
    ELSE IF NegativeVolume(row) THEN Error("Volume cannot be negative")
    ELSE Valid

\* "2024-01-02"
IMPORT_DATE == <<"2", "0", "2", "4", "-", "0", "1", "-", "0", "2">>

ValidateRows ==
    [symbol : {<<"A">>}, date : {IMPORT_DATE}, open : OptionalPrices, high : OptionalPrices,
     low : OptionalPrices, close : Prices, volume : OptionalPrices, currency : {"USD"}]

-----------------------------------------------------------------------------
(* Specification of the validation of one row *)

InitValidate ==
    /\ settings = <<>>
    /\ lookups = <<>>
    /\ newResult = "Ok"
    /\ registry = EmptyRegistry
    /\ pc = "idle"
    /\ RouteIdle
    /\ SearchIdle
    /\ BulkIdle
    /\ LatestIdle
    /\ quote_import \in ValidateRows
    /\ assets \in AssetAnswers
    /\ validation_status = NoStatus
    /\ ImportIdle
    /\ OthersIdle

ValidateQuoteImport ==
    /\ pc = "idle"
    /\ validation_status' = validate_quote_import(quote_import, assets)
    /\ pc' = "validated"
    /\ UNCHANGED <<otherVars, newVars, routeVars, searchVars, bulkVars, latestVars,
                   quote_import, assets, importVars>>

NextValidate == ValidateQuoteImport

SpecValidate == InitValidate /\ [][NextValidate]_vars

\* The rule of the ordered list 1..7 that a status reports (0: none).
RuleOf(status) ==
    CASE status.kind = "Valid" -> 0
      [] status.message = ASSET_NOT_FOUND -> 1
      [] status.message = "Prices cannot be negative" -> 2
      [] status.message = "Volume cannot be negative" -> 2
      [] status.message = "High price must be >= open price" -> 3
      [] status.message = "High price must be >= close price" -> 4
      [] status.message = "High price must be >= low price" -> 5
      [] status.message = "Low price must be <= open price" -> 6
      [] status.message = "Low price must be <= close price" -> 7

\* a >= b where both are provided.
AtLeast(a, b) == a = Absent \/ b = Absent \/ a[1] >= b[1]

SomeNegative(row) ==
    \E field \in {row.open, row.high, row.low, Some(row.close), row.volume} :
        field # Absent /\ field[1] < 0

\* The first rule of the ordered list that the row violates (0: none).
FirstViolatedRule(row, answer) ==
    CASE answer # "Found" -> 1
      [] SomeNegative(row) -> 2
      [] ~AtLeast(row.high, row.open) -> 3
      [] ~AtLeast(row.high, Some(row.close)) -> 4
      [] ~AtLeast(row.high, row.low) -> 5
      [] ~AtLeast(row.open, row.low) -> 6
      [] ~AtLeast(Some(row.close), row.low) -> 7
      [] OTHER -> 0

\* C16: the status reports the first violated rule in the order 1 asset
\* known, 2 no negative price or volume, 3 high >= open, 4 high >= close,
\* 5 high >= low, 6 low <= open, 7 low <= close.
C16_FirstViolatedRuleWins ==
    pc = "validated" =>
        RuleOf(validation_status) = FirstViolatedRule(quote_import, assets)

\* C17: for a row of a known asset without a negative field, the status
\* is Valid exactly when every relation between two provided prices holds,
\* equality included; so with high = open = close = low, and with close
\* alone.
C17_InclusiveAndAbsentSkipped ==
    pc = "validated" /\ assets = "Found" /\ ~SomeNegative(quote_import) =>
        /\ validation_status = Valid <=>
              /\ AtLeast(quote_import.high, quote_import.open)
              /\ AtLeast(quote_import.high, Some(quote_import.close))
              /\ AtLeast(quote_import.high, quote_import.low)
              /\ AtLeast(quote_import.open, quote_import.low)
              /\ AtLeast(Some(quote_import.close), quote_import.low)
        /\ ( /\ quote_import.high = Some(quote_import.close)
             /\ quote_import.open = Some(quote_import.close)
             /\ quote_import.low = Some(quote_import.close) ) => validation_status = Valid
        /\ ( /\ quote_import.high = Absent /\ quote_import.open = Absent
             /\ quote_import.low = Absent /\ quote_import.volume = Absent )
              => validation_status = Valid

C17_Witness ==
    /\ pc = "validated" /\ assets = "Found"
    /\ quote_import.close = 1
    /\ quote_import.high = Some(1) /\ quote_import.open = Some(1)
    /\ quote_import.low = Some(1)
    /\ quote_import.volume = Some(0)
    /\ validation_status = Valid

\* C18: a row in which close, or a provided open, high, low or volume, is
\* negative never gets Valid: its status is an Error.
C18_NegativeNeverValid ==
    pc = "validated" /\ SomeNegative(quote_import) => validation_status.kind = "Error"

C18_Witness ==
    /\ pc = "validated" /\ assets = "Found"
    /\ quote_import.volume = Some(0 - 1)
    /\ quote_import.close = 1
    /\ quote_import.high = Some(2) /\ quote_import.low = Some(0)
    /\ quote_import.open = Absent
    /\ validation_status = Error("Volume cannot be negative")

-----------------------------------------------------------------------------
(* MarketDataService::import_quotes *)

MaxRows == 2

\* "2024/01/02", which "%Y-%m-%d" does not parse.
SLASH_DATE == <<"2", "0", "2", "4", "/", "0", "1", "/", "0", "2">>

\* `NaiveDate::parse_from_str(&import.date, "%Y-%m-%d")`, on the dates of
\* the model: digits separated by "-" into year, month and day.
ParsesAsDate(date) ==
    /\ Len(date) = 10
    /\ date[5] = "-" /\ date[8] = "-"
    /\ \A i \in {1, 2, 3, 4, 6, 7, 9, 10} : IsAsciiDigit(date[i])

\* `import.date.replace("-", "")`
WithoutDashes(date) == SelectSeq(date, LAMBDA c : c # "-")

\* `unwrap_or`
unwrap_or(field, default) == IF field = Absent THEN default ELSE field[1]

\* `let quote = Quote { .. }` (created_at, the time of the call, left out).
SynthesizeQuote(import) ==
    [id |-> import.symbol \o <<"_">> \o WithoutDashes(import.date),
     symbol |-> import.symbol,
     timestamp |-> import.date,
     open |-> unwrap_or(import.open, import.close),
     high |-> unwrap_or(import.high, import.close),
     low |-> unwrap_or(import.low, import.close),
     close |-> import.close,
     adjclose |-> import.close,
     volume |-> unwrap_or(import.volume, 0),
     currency |-> import.currency,
     data_source |-> DATA_SOURCE_MANUAL]

\* The first loop: one status pushed per row.
RECURSIVE ValidationResults(_, _, _, _)
ValidationResults(rows, answers, i, statuses) ==
    IF i > Len(rows) THEN statuses
    ELSE ValidationResults(rows, answers, i + 1,
             Append(statuses, validate_quote_import(rows[i], answers[i])))

KeepsEveryRow(status, import) == TRUE

\* The closure of `filter_map`: Some(quote) for a Valid row whose date
\* parses, None for every other row.
KeepsRow(status, import) == status = Valid /\ ParsesAsDate(import.date)

\* `validation_results.iter().zip(quotes.iter()).filter_map(..).collect()`
RECURSIVE ValidQuotes(_, _, _, _)
ValidQuotes(statuses, rows, i, kept) ==
    IF i > Min(Len(statuses), Len(rows)) THEN kept
    ELSE IF KeepsRow(statuses[i], rows[i])
         THEN ValidQuotes(statuses, rows, i + 1, Append(kept, SynthesizeQuote(rows[i])))
         ELSE ValidQuotes(statuses, rows, i + 1, kept)

\* The rows of the model: of a known or unknown asset, with a date that
\* parses or not, with a high that is below close or not.
ImportRows ==
    [symbol : {<<"A">>, <<"B">>}, date : {IMPORT_DATE, SLASH_DATE}, open : {Absent},
     high : {Absent, Some(1)}, low : {Absent}, close : {1, 2}, volume : {Absent},
     currency : {"USD"}]

\* What import_quotes returns.
ImportOk(statuses) == [kind |-> "Ok", statuses |-> statuses]
ImportErr == [kind |-> "Err", statuses |-> <<>>]

\* `self.repository.save_quotes(&valid_quotes).await?; Ok(validation_results)`
AfterSave(outcome, statuses) ==
    IF outcome = "Err" THEN ImportErr ELSE ImportOk(statuses)

-----------------------------------------------------------------------------
(* Specification of the import *)

InitImport ==
    /\ settings = <<>>
    /\ lookups = <<>>
    /\ newResult = "Ok"
    /\ registry = EmptyRegistry
    /\ pc = "idle"
    /\ RouteIdle
    /\ SearchIdle
    /\ BulkIdle
    /\ LatestIdle
    /\ ValidateIdle
    /\ ImportIdle
    /\ OthersIdle

\* import_quotes up to `.collect()`: the rows are validated and the quotes
\* of the valid rows synthesized.
ImportQuotes ==
    /\ pc = "idle"
    /\ \E rows \in SeqsUpTo(ImportRows, MaxRows) :
         \E answers \in [DOMAIN rows -> AssetAnswers] :
            LET statuses == ValidationResults(rows, answers, 1, <<>>) IN
            /\ import_rows' = rows
            /\ asset_answers' = answers
            /\ validation_results' = statuses
            /\ valid_quotes' = ValidQuotes(statuses, rows, 1, <<>>)
    /\ save_calls' = <<>>
    /\ importResult' = NoImportResult
    /\ pc' = "import"
    /\ UNCHANGED <<otherVars, newVars, routeVars, searchVars, bulkVars, latestVars, validateVars>>

\* `if !valid_quotes.is_empty() { save_quotes(..).await?; }`: the batch is
\* handed to the repository, which saves it or fails.
ImportSave ==
    /\ pc = "import"
    /\ valid_quotes # <<>>
    /\ save_calls' = Append(save_calls, valid_quotes)
    /\ \E outcome \in {"Ok", "Err"} :
         importResult' = AfterSave(outcome, validation_results)
    /\ pc' = "import_done"
    /\ UNCHANGED <<otherVars, newVars, routeVars, searchVars, bulkVars, latestVars, validateVars,
                   import_rows, asset_answers, validation_results, valid_quotes>>

\* No quote to save: `Ok(validation_results)`.
ImportNothingToSave ==
    /\ pc = "import"
    /\ valid_quotes = <<>>
    /\ importResult' = ImportOk(validation_results)
    /\ pc' = "import_done"
    /\ UNCHANGED <<otherVars, newVars, routeVars, searchVars, bulkVars, latestVars, validateVars,
                   import_rows, asset_answers, validation_results, valid_quotes,
                   save_calls>>

ImportReturn ==
    /\ pc = "import_done"
    /\ pc' = "idle"
    /\ import_rows' = <<>>
    /\ asset_answers' = <<>>
    /\ validation_results' = <<>>
    /\ valid_quotes' = <<>>
    /\ save_calls' = <<>>
    /\ importResult' = NoImportResult
    /\ UNCHANGED <<otherVars, newVars, routeVars, searchVars, bulkVars, latestVars, validateVars>>

NextImport == ImportQuotes \/ ImportSave \/ ImportNothingToSave \/ ImportReturn

SpecImport == InitImport /\ [][NextImport]_vars

ValidRows == { i \in DOMAIN import_rows : validation_results[i] = Valid }

\* The quotes handed to the repository in this call.
Persisted == UNION { Range(save_calls[k]) : k \in DOMAIN save_calls }

\* C19: import_quotes computes one status per row, in row order, the one
\* validate_quote_import gives for that row; every quote handed to the
\* repository comes from a row whose status is Valid; save_quotes is called
\* at most once, and not at all when no row is Valid.
C19_OneStatusPerRow ==
    pc = "import_done" =>
        /\ Len(validation_results) = Len(import_rows)
        /\ \A i \in DOMAIN import_rows :
              validation_results[i] = validate_quote_import(import_rows[i], asset_answers[i])
        /\ importResult.kind = "Ok" => importResult.statuses = validation_results
        /\ \A quote \in Persisted :
              \E i \in ValidRows :
                  /\ quote.symbol = import_rows[i].symbol
                  /\ quote.timestamp = import_rows[i].date
                  /\ quote.close = import_rows[i].close
                  /\ quote.high = unwrap_or(import_rows[i].high, import_rows[i].close)
        /\ Len(save_calls) <= 1
        /\ ValidRows = {} => save_calls = <<>>

C19_Witness ==
    /\ pc = "import_done"
    /\ Len(import_rows) = 2
    /\ validation_results[1].kind = "Error"
    /\ validation_results[2] = Valid
    /\ save_calls = << <<SynthesizeQuote(import_rows[2])>> >>
    /\ importResult = ImportOk(validation_results)

\* C29: every row whose status is Valid has its quote in the batch handed
\* to save_quotes: the batch holds as many quotes as there are Valid
\* statuses, whatever the date strings of the rows.
C29_EveryValidRowPersisted ==
    pc = "import_done" =>
        /\ Len(valid_quotes) = Cardinality(ValidRows)
        /\ ValidRows # {} => save_calls = <<valid_quotes>>

\* C20: import_quotes returns Ok with one status per row whatever the
\* repository answers to save_quotes.
C20_StatusesWhateverSaveDoes ==
    pc = "import_done" =>
        /\ importResult.kind = "Ok"
        /\ Len(importResult.statuses) = Len(import_rows)

-----------------------------------------------------------------------------
(* MarketDataService::import_quotes_from_csv *)

Warning(message) == [kind |-> "Warning", message |-> message]

\* `Uuid::new_v4().to_string()`: the n-th id generated, distinct from every
\* other one and from the ids import_quotes builds.
UuidV4(n) == <<"u">> \o [i \in 1..n |-> "x"]

\* `let new_quote = Quote { .. }` (created_at left out).
CsvQuote(row, id) ==
    [id |-> id,
     symbol |-> row.symbol,
     timestamp |-> row.date,
     open |-> unwrap_or(row.open, 0),
     high |-> unwrap_or(row.high, 0),
     low |-> unwrap_or(row.low, 0),
     close |-> row.close,
     adjclose |-> row.close,
     volume |-> unwrap_or(row.volume, 0),
     currency |-> row.currency,
     data_source |-> DATA_SOURCE_MANUAL]

\* The repository holds a quote of that symbol and day.
QuoteExists(stored, row) ==
    \E q \in stored : q.symbol = row.symbol /\ q.timestamp = row.date

\* `self.repository.quote_exists(&quote.symbol, date_str)`: the truth, or
\* a database error.
ExistsAnswers(stored, row) ==
    {"Err", IF QuoteExists(stored, row) THEN "True" ELSE "False"}

ChecksExistingNever(overwrite) == FALSE

\* `if !overwrite`
ChecksExisting(overwrite) == ~overwrite

SaveStatusAlwaysValid(outcome) == Valid

\* The two arms of `match self.repository.save_quote(&new_quote).await`.
SaveStatus(outcome) ==
    IF outcome = "Ok" THEN Valid ELSE Error("Failed to save")

\* save_quote writes the quote under its id.
Saved(stored, quote) == { q \in stored : q.id # quote.id } \cup {quote}

\* The row with its validation_status and error_message set.
Marked(row, status, error_message) ==
    [symbol |-> row.symbol, date |-> row.date, open |-> row.open, high |-> row.high,
     low |-> row.low, close |-> row.close, volume |-> row.volume,
     currency |-> row.currency,
     validation_status |-> status, error_message |-> error_message]

\* What one iteration did: whether the repository held the row's key when
\* the iteration began, the existence lookup's answer, the save_quote call
\* and its outcome.
NoCall == "none"
RowCalls(existed, found, quotes, outcome) ==
    [existed |-> existed, found |-> found, save |-> quotes, outcome |-> outcome]

\* A quote of an earlier import of symbol A on the day of IMPORT_DATE.
EarlierQuote ==
    SynthesizeQuote([symbol |-> <<"A">>, date |-> IMPORT_DATE, open |-> Absent,
                     high |-> Absent, low |-> Absent, close |-> 1, volume |-> Absent,
                     currency |-> "USD"])

-----------------------------------------------------------------------------
(* Specification of the CSV import *)

InitCsv ==
    /\ settings = <<>>
    /\ lookups = <<>>
    /\ newResult = "Ok"
    /\ registry = EmptyRegistry
    /\ pc = "idle"
    /\ RouteIdle
    /\ SearchIdle
    /\ BulkIdle
    /\ LatestIdle
    /\ ValidateIdle
    /\ ImportIdle
    /\ csv_rows = <<>>
    /\ csv_overwrite = FALSE
    /\ csv_out = <<>>
    /\ csv_calls = <<>>
    /\ store \in {{}, {EarlierQuote}}
    /\ csvResult = NoCsvResult
    /\ LockIdle

\* The call arrives.
ImportQuotesFromCsv ==
    /\ pc = "idle"
    /\ csv_rows' \in SeqsUpTo(ImportRows, MaxRows)
    /\ csv_overwrite' \in BOOLEAN
    /\ csv_out' = <<>>
    /\ csv_calls' = <<>>
    /\ csvResult' = NoCsvResult
    /\ pc' = "csv"
    /\ UNCHANGED <<newVars, routeVars, searchVars, bulkVars, latestVars, validateVars,
                   importVars, lockVars, store>>

\* One iteration of `for quote in quotes.iter_mut()` that ends before
\* save_quote: the date does not parse, the quote exists already, or the
\* existence lookup fails.
CsvSkipRow ==
    /\ pc = "csv"
    /\ Len(csv_out) < Len(csv_rows)
    /\ LET row == csv_rows[Len(csv_out) + 1]
           existed == QuoteExists(store, row)
       IN IF ~ParsesAsDate(row.date)
          THEN /\ csv_out' = Append(csv_out,
                      Marked(row, Error("Invalid date format"), Some("Invalid date format")))
               /\ csv_calls' = Append(csv_calls, RowCalls(existed, NoCall, <<>>, NoCall))
          ELSE /\ ChecksExisting(csv_overwrite)
               /\ \E found \in ExistsAnswers(store, row) \ {"False"} :
                    /\ csv_out' = Append(csv_out,
                           IF found = "True"
                           THEN Marked(row, Warning("Quote already exists"),
                                       Some("Quote already exists (use overwrite to replace)"))
                           ELSE Marked(row, Error("Database error"), Some("Database error")))
                    /\ csv_calls' = Append(csv_calls, RowCalls(existed, found, <<>>, NoCall))
    /\ UNCHANGED <<newVars, routeVars, searchVars, bulkVars, latestVars, validateVars,
                   importVars, lockVars, pc, csv_rows, csv_overwrite, store, csvResult>>

\* One iteration that reaches save_quote: the quote is built under a fresh
\* id and the repository saves it or fails.
CsvSaveRow ==
    /\ pc = "csv"
    /\ Len(csv_out) < Len(csv_rows)
    /\ LET row == csv_rows[Len(csv_out) + 1]
           existed == QuoteExists(store, row)
           generated == Cardinality({ i \in DOMAIN csv_calls : csv_calls[i].save # <<>> })
           new_quote == CsvQuote(row, UuidV4(generated + 1))
       IN /\ ParsesAsDate(row.date)
          /\ \E found \in (IF ChecksExisting(csv_overwrite)
                            THEN ExistsAnswers(store, row) \cap {"False"}
                            ELSE {NoCall}) :
              \E outcome \in {"Ok", "Err"} :
                 /\ csv_out' = Append(csv_out,
                        Marked(row, SaveStatus(outcome),
                               IF outcome = "Ok" THEN Absent ELSE Some("Failed to save")))
                 /\ csv_calls' = Append(csv_calls,
                        RowCalls(existed, found, <<new_quote>>, outcome))
                 /\ store' = IF outcome = "Ok" THEN Saved(store, new_quote) ELSE store
    /\ UNCHANGED <<newVars, routeVars, searchVars, bulkVars, latestVars, validateVars,
                   importVars, lockVars, pc, csv_rows, csv_overwrite, csvResult>>

\* `Ok(quotes)`
CsvFinish ==
    /\ pc = "csv"
    /\ Len(csv_out) = Len(csv_rows)
    /\ csvResult' = [kind |-> "Ok", rows |-> csv_out]
    /\ pc' = "csv_done"
    /\ UNCHANGED <<newVars, routeVars, searchVars, bulkVars, latestVars, validateVars,
                   importVars, lockVars, csv_rows, csv_overwrite, csv_out, csv_calls, store>>

NextCsv == ImportQuotesFromCsv \/ CsvSkipRow \/ CsvSaveRow \/ CsvFinish

SpecCsv == InitCsv /\ [][NextCsv]_vars

\* The row the next iteration processes.
CurrentRow == csv_rows[Len(csv_out) + 1]

C22_CsvNeverFails ==
    pc = "csv_done" =>
        /\ csvResult.kind = "Ok"
        /\ Len(csvResult.rows) = Len(csv_rows)
        /\ Len(csv_calls) = Len(csv_rows)
        /\ \A i \in DOMAIN csv_rows :
              LET done == csvResult.rows[i] IN
              /\ done.symbol = csv_rows[i].symbol
              /\ done.date = csv_rows[i].date
              /\ done.close = csv_rows[i].close
              /\ done.validation_status.kind \in {"Valid", "Warning", "Error"}
              /\ ~ParsesAsDate(csv_rows[i].date) => done.validation_status.kind = "Error"
              /\ csv_calls[i].found = "Err" => done.validation_status.kind = "Error"
              /\ csv_calls[i].outcome = "Err" => done.validation_status.kind = "Error"
              /\ csv_calls[i].outcome = "Ok" => done.validation_status = Valid

C22_Witness ==
    /\ pc = "csv_done"
    /\ Len(csv_rows) = 2
    /\ csv_calls[1].outcome = "Err"
    /\ csvResult.rows[1].validation_status = Error("Failed to save")
    /\ csv_calls[2].outcome = "Ok"
    /\ csvResult.rows[2].validation_status = Valid

\* C23: two quotes an import synthesizes for the same symbol and date have
\* the same id.
C23_IdFromSymbolAndDate ==
    \A i, j \in DOMAIN csv_calls :
        \A a \in Range(csv_calls[i].save) :
            \A b \in Range(csv_calls[j].save) :
                a.symbol = b.symbol /\ a.timestamp = b.timestamp => a.id = b.id

\* C30: a row that import_quotes_from_csv saves or marks Valid is a row
\* validate_quote_import accepts for a known asset.
C30_CsvRowsValidated ==
    \A i \in DOMAIN csv_out :
        csv_out[i].validation_status = Valid \/ csv_calls[i].save # <<>> =>
            validate_quote_import(csv_rows[i], "Found") = Valid

-----------------------------------------------------------------------------
(* The RwLock around the registry *)

\* tokio's RwLock is fair: a request is granted at once only when nothing
\* waits, and waiters are served first in, first out.
CanRead(l) == ~l.writer /\ l.waiters = <<>>

CanWrite(l) == ~l.writer /\ l.readers = 0 /\ l.waiters = <<>>

Waiting(l, t, mode) == [l EXCEPT !.waiters = Append(@, [task |-> t, mode |-> mode])]

\* `self.provider_registry.read().await`, up to the first suspension.
Read(l, t) ==
    IF CanRead(l) THEN [l EXCEPT !.readers = @ + 1] ELSE Waiting(l, t, "read")

\* The drop of a read guard.
Unlock(l) == [l EXCEPT !.readers = @ - 1]

\* The task moves on from `from`: to `held` with the guard, or to
\* `waiting` in the queue.
ReadFrom(t, from, held, waiting) ==
    /\ task_pc[t] = from
    /\ rw_lock' = Read(rw_lock, t)
    /\ task_pc' = [task_pc EXCEPT ![t] = IF CanRead(rw_lock) THEN held ELSE waiting]

UnlockFrom(t, from, to) ==
    /\ task_pc[t] = from
    /\ rw_lock' = Unlock(rw_lock)
    /\ task_pc' = [task_pc EXCEPT ![t] = to]

LockFrame ==
    UNCHANGED <<newVars, pc, routeVars, searchVars, bulkVars, latestVars, validateVars,
                importVars, csvVars>>

-----------------------------------------------------------------------------
(* Specification of the locking *)

InitLock ==
    /\ settings = <<>>
    /\ lookups = <<>>
    /\ newResult = "Ok"
    /\ registry = EmptyRegistry
    /\ pc = "idle"
    /\ RouteIdle
    /\ SearchIdle
    /\ BulkIdle
    /\ LatestIdle
    /\ ValidateIdle
    /\ ImportIdle
    /\ CsvIdle
    /\ rw_lock = FreeLock
    /\ task_pc = [t \in Tasks |-> "idle"]
    /\ groups_left \in {0, MaxRequests}

\* get_latest_quotes_bulk: `let provider_registry = ..read().await`; the
\* guard lives until the function returns.
BulkReadOuter ==
    /\ ReadFrom("bulk", "idle", "grouped", "wait_outer")
    /\ UNCHANGED groups_left
    /\ LockFrame

\* `self.provider_registry.read().await.get_provider(..)` in the loop over
\* the groups, while the first guard is held.
BulkReadInner ==
    /\ groups_left > 0
    /\ ReadFrom("bulk", "grouped", "inner", "wait_inner")
    /\ UNCHANGED groups_left
    /\ LockFrame

\* The temporary guard is dropped at the end of the statement.
BulkUnlockInner ==
    /\ UnlockFrom("bulk", "inner", "grouped")
    /\ groups_left' = groups_left - 1
    /\ LockFrame

\* The function returns and drops the first guard.
BulkUnlockOuter ==
    /\ groups_left = 0
    /\ UnlockFrom("bulk", "grouped", "done")
    /\ UNCHANGED groups_left
    /\ LockFrame

\* get_asset_profile: `let provider_registry = ..read().await`.
ProfileReadOuter ==
    /\ ReadFrom("profile", "idle", "routed", "wait_outer")
    /\ UNCHANGED groups_left
    /\ LockFrame

\* `Some(provider_name)`: the second `read().await`, for get_profiler.
ProfileReadInner ==
    /\ ReadFrom("profile", "routed", "inner", "wait_inner")
    /\ UNCHANGED groups_left
    /\ LockFrame

ProfileUnlockInner ==
    /\ UnlockFrom("profile", "inner", "profiled")
    /\ UNCHANGED groups_left
    /\ LockFrame

\* The function returns (`None => Ok(None)`, or after the profiler's
\* answer) and drops the first guard.
ProfileUnlockOuter ==
    /\ \E from \in {"routed", "profiled"} : UnlockFrom("profile", from, "done")
    /\ UNCHANGED groups_left
    /\ LockFrame

\* The reconfiguration asks for the write lock.
WriterRequest ==
    /\ task_pc["writer"] = "idle"
    /\ rw_lock' = IF CanWrite(rw_lock) THEN [rw_lock EXCEPT !.writer = TRUE]
                   ELSE Waiting(rw_lock, "writer", "write")
    /\ task_pc' = [task_pc EXCEPT !["writer"] = IF CanWrite(rw_lock) THEN "writing"
                                                 ELSE "wait_write"]
    /\ UNCHANGED groups_left
    /\ LockFrame

\* The registry is swapped and the write guard dropped.
WriterUnlock ==
    /\ task_pc["writer"] = "writing"
    /\ rw_lock' = [rw_lock EXCEPT !.writer = FALSE]
    /\ task_pc' = [task_pc EXCEPT !["writer"] = "done"]
    /\ UNCHANGED groups_left
    /\ LockFrame

\* The first waiter gets the lock as soon as the guards held allow it.
LockGrant ==
    /\ rw_lock.waiters # <<>>
    /\ ~rw_lock.writer
    /\ LET first == Head(rw_lock.waiters) IN
       /\ first.mode = "write" => rw_lock.readers = 0
       /\ rw_lock' = [readers |-> IF first.mode = "read" THEN rw_lock.readers + 1
                                  ELSE rw_lock.readers,
                      writer |-> first.mode = "write",
                      waiters |-> Tail(rw_lock.waiters)]
       /\ task_pc' = [task_pc EXCEPT ![first.task] =
                         CASE task_pc[first.task] = "wait_write" -> "writing"
                           [] task_pc[first.task] = "wait_inner" -> "inner"
                           [] first.task = "bulk" -> "grouped"
                           [] OTHER -> "routed"]
    /\ UNCHANGED groups_left
    /\ LockFrame

NextLock ==
    \/ BulkReadOuter \/ BulkReadInner \/ BulkUnlockInner \/ BulkUnlockOuter
    \/ ProfileReadOuter \/ ProfileReadInner \/ ProfileUnlockInner \/ ProfileUnlockOuter
    \/ WriterRequest \/ WriterUnlock \/ LockGrant

\* Every task that can take a step eventually takes one.
SpecLock == InitLock /\ [][NextLock]_vars /\ WF_vars(NextLock)

\* C27: the readers and the writer all complete: every call returns with
\* its read guards released and the writer gets the lock.
C27_ReadersAndWriterComplete ==
    <>( /\ \A t \in Tasks : task_pc[t] = "done"
        /\ rw_lock = FreeLock )

-----------------------------------------------------------------------------
(* Claims on the bulk retrieval *)

SomeUnresolved ==
    \E i \in DOMAIN quote_requests :
        get_provider_for_symbol(registry, quote_requests[i].symbol) = None

SomeSymbolFailed ==
    \E p \in DOMAIN group_answers :
        group_answers[p].kind = "Ok" /\ group_answers[p].failed_symbols # <<>>

SomeGroupFailed ==
    \E p \in DOMAIN group_answers : group_answers[p].kind = "Err"

\* C1: get_latest_quotes_bulk returns an error and no quote when a request
\* has no provider, a provider reports a failed symbol or a provider's call
\* fails; it returns Ok only with an empty failed-requests collection.
C1_AllOrNothing ==
    pc = "bulk_done" =>
        /\ SomeUnresolved \/ SomeSymbolFailed \/ SomeGroupFailed
              => bulkResult.kind = "Err" /\ bulkResult.quotes = <<>>
        /\ bulkResult.kind = "Ok" => failed_requests = <<>>
        /\ bulkResult.kind \in {"Ok", "Err"}

C1_Witness ==
    /\ pc = "bulk_done"
    /\ bulkResult.kind = "Err"
    /\ results # <<>>
    /\ SomeGroupFailed
    /\ \E p \in DOMAIN group_answers :
         group_answers[p].kind = "Ok" /\ group_answers[p].failed_symbols = <<>>

\* C26: every entry of the failed-requests collection is one of the
\* requests of the call: it carries the data_source requested for its
\* symbol.
C26_FailedKeepDataSource ==
    pc \in {"bulk", "bulk_done"} =>
        \A i \in DOMAIN failed_requests :
            \E j \in DOMAIN quote_requests : failed_requests[i] = quote_requests[j]

\* C28: a successful get_latest_quotes_bulk returns exactly one quote for
\* every distinct symbol of the requests.
C28_OkCoversEverySymbol ==
    pc = "bulk_done" /\ bulkResult.kind = "Ok" =>
        \A j \in DOMAIN quote_requests :
            Cardinality({ i \in DOMAIN bulkResult.quotes :
                            bulkResult.quotes[i].symbol = quote_requests[j].symbol }) = 1

====
